---------------------------- MODULE Spec2Model ----------------------------
(***************************************************************************)
(* The desktop voice recorder (MinimalRecorder): the recording state       *)
(* machine, the location cache gate, the remote call adapters and the      *)
(* input/shortcut router.                                                  *)
(*                                                                         *)
(* React state (useState) is held in the variables state, statusMessage,   *)
(* transcript, events, savedLocation, locationPromptOpen, locationInput.   *)
(* A setState call updates them at once; the closures the handlers were    *)
(* built from, the refs the effects keep in step (stateRef,                *)
(* locationPromptOpenRef, handlersRef) and the view on screen are the      *)
(* values of the last render, held in `rendered`.  A render that follows a *)
(* key or a click is flushed within the event; one that follows an await   *)
(* or a native event is a later task (Render).                             *)
(*                                                                         *)
(* Every await on a native command, the store or an HTTP call is an entry  *)
(* of `ops`: the suspended handler with the values its closure captured.   *)
(* The effects of a render that touch more than a ref are modelled too:    *)
(* the animation loop (frame) and the start-recording subscription, which  *)
(* a render with a new state drops and requests again (listening).         *)
(* Strings are sequences of one-character strings; the optional country    *)
(* of a location preference takes part in no decision and is left out.     *)
(***************************************************************************)
EXTENDS Integers, Sequences, FiniteSets, Bags, TLC

VARIABLES
    state,              \* useState<RecorderState>
    statusMessage,      \* useState<string>
    transcript,         \* useState<string>
    events,             \* useState<Event[]>
    savedLocation,      \* useState<{location, country?} | null>
    locationPromptOpen, \* useState<boolean>
    locationInput,      \* useState<string>
    pendingSearch,      \* pendingSearchRef.current
    rendered,           \* the values of the last render (closures, refs, view)
    unrendered,         \* updates made since the last render
    ops,                \* bag of suspended handlers (outstanding awaits)
    captureActive,      \* native capture session is running
    windowHidden,       \* the window has been hidden
    store,              \* native key-value store: the persisted preference
    signal,             \* volumeRef, targetVolumeRef, noiseFloorRef, lastAudioAtRef
    samples,            \* amplitude events delivered so far
    frame,              \* a requestAnimationFrame callback is pending
    frames,             \* frames drawn so far
    listening,          \* the native event subscriptions (listen)
    last                \* the step just taken (history, read by the properties)

sessVars == <<state, statusMessage, transcript, events>>
locVars  == <<savedLocation, locationPromptOpen, locationInput>>
envVars  == <<captureActive, windowHidden, store>>
sigVars  == <<signal, samples, frames>>
fxVars   == <<frame, listening>>
vars == <<state, statusMessage, transcript, events, savedLocation,
          locationPromptOpen, locationInput, pendingSearch, rendered,
          unrendered, ops, captureActive, windowHidden, store, signal, samples,
          frame, frames, listening, last>>

-----------------------------------------------------------------------------
(* Bounds *)

\* outstanding awaits at any one time
MaxOps == 2
\* events in one search response
MaxEvents == 1
\* continuations and native events that run before the render task does
MaxUnrendered == 1
\* amplitude events delivered in a run
MaxSamples == 2
\* the latest reading of the clock
MaxClock == 2
\* frames drawn in a run
MaxFrames == 2

-----------------------------------------------------------------------------
(* Values *)

RecorderState == {"idle", "recording", "processing", "error", "transcribed", "results"}

\* the texts a transcription may return: empty, whitespace only, speech
Transcripts == {<<>>, <<" ">>, <<"j">>}

\* what the user may type into the location field
LocationInputs == {<<" ">>, <<"B", " ">>}

\* a location preference or null: <<>> is null, <<l>> is {location: l}
NoPref == <<>>
Pref(l) == <<l>>

\* the event lists a search may return
EventList(n) == [i \in 1..n |-> "e"]
EventLists == {EventList(n) : n \in 0..MaxEvents}

\* amplitudes are fixed-point numbers: Scale stands for 1.0
Scale == 10000
\* the rms of an amplitude event: none or silence, a quiet room, speech
RmsValues == {0, 100, 3000}
\* the rms of a steady recording: every level from 0.0001 to 1
SteadyRms == 1..Scale

\* the status messages, without their leading pictograph; the option-key
\* glyph is written Alt+ and the text of a caught error is written error
IdleMsg          == "Press Alt+E to start"
RecordingMsg     == "Recording... (Alt+E to stop)"
StartFailedMsg   == "Failed to start recording"
ProcessingMsg    == "Processing audio..."
TranscribingMsg  == "Transcribing..."
NoFileMsg        == "No recording file received"
StopFailedMsg    == "Failed to stop recording: error"
TranscribeFailedMsg == "Transcription failed: error"
ReadyMsg         == "Ready to search"
NoSpeechMsg      == "No speech detected"
NoServerMsg      == "Could not connect to server"
SearchingMsg     == "Searching for events..."
TellUsMsg        == "Tell us where you are"
SearchFailedMsg  == "Search failed"
NoEventsMsg      == "No events found for your query"
FoundMsg(n)      == "Found " \o ToString(n) \o " event(s)"

-----------------------------------------------------------------------------
(* Pure helpers *)

IsSpace(c) == c = " "

RECURSIVE TrimStart(_)
TrimStart(s) ==
    IF s = <<>> THEN <<>>
    ELSE IF IsSpace(Head(s)) THEN TrimStart(Tail(s)) ELSE s

RECURSIVE TrimEnd(_)
TrimEnd(s) ==
    IF s = <<>> THEN <<>>
    ELSE IF IsSpace(s[Len(s)]) THEN TrimEnd(SubSeq(s, 1, Len(s) - 1)) ELSE s

\* String.prototype.trim
Trim(s) == TrimEnd(TrimStart(s))

\* a JavaScript string is truthy when it is not empty
Truthy(s) == s # <<>>

\* `p?.location` is truthy
HasLocation(p) == p # NoPref /\ Truthy(p[1])

Max(a, b) == IF a >= b THEN a ELSE b
Min(a, b) == IF a <= b THEN a ELSE b

-----------------------------------------------------------------------------
(* The signal processor *)

\* the refs at mount
SignalZero == [volume |-> 0, targetVolume |-> 0, noiseFloor |-> 0, lastAudioAt |-> 0]

\* start: volumeRef, targetVolumeRef and noiseFloorRef are set to 0
resetSignal(sig) == [sig EXCEPT !.volume = 0, !.targetVolume = 0, !.noiseFloor = 0]

adaptFloorDecays(floor, rms) == IF floor = 0 THEN rms ELSE (98 * floor) \div 100

\* the noise floor after a sample: the first sample sets it, a sample below
\* one and a half times the floor moves it by 2%
adaptFloor(floor, rms) ==
    IF floor = 0 THEN rms
    ELSE IF 2 * rms < 3 * floor THEN (98 * floor + 2 * rms) \div 100
    ELSE floor

\* gate = noiseFloor * 1.3 + 0.0025
gateOf(floor) == (13 * floor) \div 10 + 25

\* the audio-level listener past its guard, for a sample read at time t
ingest(sig, rms, t) ==
    LET floor == adaptFloor(sig.noiseFloor, rms)
        level == Max(0, rms - gateOf(floor))
    IN  [sig EXCEPT !.lastAudioAt = t,
                    !.noiseFloor = floor,
                    !.targetVolume = Min(Scale, 4 * level)]

\* the audio-level listener returns at its guard: stateRef is not recording
dropsSample(ref) == ref # "recording"

\* draw while recording: volumeRef moves a fifth of the way to targetVolumeRef
smooth(sig) ==
    [sig EXCEPT !.volume = sig.volume + (2 * (sig.targetVolume - sig.volume)) \div 10]

-----------------------------------------------------------------------------
(* Renders, closures and the view *)

\* what a render hands to the closures, the refs and the view
Snap == [state              |-> state,
         transcript         |-> transcript,
         events             |-> events,
         savedLocation      |-> savedLocation,
         locationPromptOpen |-> locationPromptOpen,
         locationInput      |-> locationInput]

\* the subscriptions once the listen calls of the mount have resolved
Subscribed == [audioLevel |-> "active", startRecording |-> "active"]

\* the effects of a render, f being the pending frame before it.  A render
\* with a new state runs the cleanup of the start-recording effect (unlisten,
\* cancelAnimationFrame), the cleanup of the animation effect
\* (cancelAnimationFrame), then their bodies: listen is called again and a
\* frame is requested if the state is recording.  The audio-level effect has
\* no dependency and never runs again.
Effects(f) ==
    IF state' # rendered.state
    THEN /\ frame' = (state' = "recording")
         /\ listening' = [listening EXCEPT !.startRecording = "pending"]
    ELSE /\ frame' = f
         /\ UNCHANGED listening

\* an input event: React renders and runs the effects before it returns
FlushAfter(f) == rendered' = Snap' /\ unrendered' = 0 /\ Effects(f)
Flush == FlushAfter(frame)

\* an update outside an input event: the render is a task still to run
Defer ==
    /\ unrendered < MaxUnrendered
    /\ unrendered' = unrendered + 1
    /\ UNCHANGED <<rendered, fxVars>>

\* the view the component returns for a render
View(r) ==
    IF r.state = "transcribed" \/ (r.state = "error" /\ Truthy(r.transcript))
    THEN "transcript"
    ELSE IF r.state = "results" /\ Len(r.events) > 0 THEN "results"
    ELSE "main"

\* the buttons of a render; the location overlay covers the others
Buttons(r) ==
    IF r.locationPromptOpen THEN {"saveLocation", "closePrompt"}
    ELSE IF View(r) = "transcript" THEN {"search", "reset", "cancel"}
    ELSE IF View(r) = "results" THEN {"reset", "cancel"}
    ELSE {"cancel"} \cup
         (IF r.state = "processing" THEN {}
          ELSE IF r.state = "error" THEN {"reset"}
          ELSE IF r.state = "recording" THEN {"stop"} ELSE {"start"})

Keys == {"AltE", "Escape", "Enter", "Other"}

onKeyEnterAlways(promptRef, key, stateRef) ==
    IF promptRef
    THEN IF key = "Enter" THEN "saveLocation"
         ELSE IF key = "Escape" THEN "closePrompt" ELSE "none"
    ELSE IF key = "AltE"
         THEN IF stateRef = "recording" THEN "stop"
              ELSE IF stateRef \in {"idle", "error"} THEN "start" ELSE "none"
         ELSE IF key = "Escape" THEN "cancel"
         ELSE IF key = "Enter" THEN "search"
         ELSE "none"

\* the handler a key reaches, from the refs
onKey(promptRef, key, stateRef) ==
    IF promptRef
    THEN IF key = "Enter" THEN "saveLocation"
         ELSE IF key = "Escape" THEN "closePrompt" ELSE "none"
    ELSE IF key = "AltE"
         THEN IF stateRef = "recording" THEN "stop"
              ELSE IF stateRef \in {"idle", "error"} THEN "start" ELSE "none"
         ELSE IF key = "Escape" THEN "cancel"
         ELSE IF key = "Enter" /\ stateRef = "transcribed" THEN "search"
         ELSE "none"

\* the handler the start-recording listener reaches, from its closure
startRecordingListener(c) ==
    IF c.state = "recording" THEN "stop"
    ELSE IF c.state # "processing" THEN "start" ELSE "none"

-----------------------------------------------------------------------------
(* Outstanding awaits *)

Op(kind, t, loc, saved) ==
    [kind |-> kind, t |-> t, loc |-> loc, saved |-> saved, stale |-> FALSE]

OpKinds == {"mountLoad", "start", "stop", "transcribe", "searchRead",
            "searchFetch", "saveWrite", "cancelNative", "hide"}

Pending == BagToSet(ops)
Room == BagCardinality(ops) < MaxOps

Without(op) == ops (-) SetToBag({op})
With(b, op) == b (+) SetToBag({op})

\* a request sent before the session moved on answers a session that is gone
HttpKinds == {"transcribe", "searchFetch"}
Outdate(op) == IF op.kind \in HttpKinds THEN [op EXCEPT !.stale = TRUE] ELSE op
RECURSIVE MovedOn(_)
MovedOn(b) ==
    IF b = EmptyBag THEN EmptyBag
    ELSE LET op == CHOOSE o \in BagToSet(b) : TRUE
         IN  With(MovedOn(b (-) SetToBag({op})), Outdate(op))

-----------------------------------------------------------------------------
(* Guards of the handlers, on the values their closure holds *)

startReturns(c)  == c.state = "recording" \/ c.state = "processing"
stopReturns(c)   == c.state # "recording"
searchReturnsUntrimmed(c) == ~Truthy(c.transcript)
searchReturns(c) == ~Truthy(Trim(c.transcript))
saveReturnsUntrimmed(c) == ~Truthy(c.locationInput)
saveReturnsNever(c) == FALSE
saveReturns(c)   == ~Truthy(Trim(c.locationInput))

\* cancel asks the native side to cancel only when its closure is recording
cancelsCaptureAlways(c) == TRUE
cancelsCaptureNever(c) == FALSE
cancelsCapture(c) == c.state = "recording"

\* transcribeRecording: text.trim() is truthy
hasSpeechNever(text) == FALSE
hasSpeechUntrimmed(text) == Truthy(text)
hasSpeech(text) == Truthy(Trim(text))

\* searchWithTranscript: data.events.length > 0
hasEventsAlways(evs) == TRUE
hasEvents(evs) == Len(evs) > 0

\* ensureLocation answers from the cache without reading the store
cached(c) == HasLocation(c.savedLocation)

\* pendingSearchRef.current = true, when the search is deferred
skipPending == UNCHANGED pendingSearch
setPending == pendingSearch' = TRUE

\* pendingSearchRef.current = false, before the search is invoked again
keepPending == UNCHANGED pendingSearch
clearPending == pendingSearch' = FALSE

-----------------------------------------------------------------------------
(* The handlers, up to their first await.  c is the closure: the values of *)
(* the render the handler was built in.  Each leaves rendered and last to  *)
(* the event that called it.                                               *)

\* searchWithTranscript past its guard: ensureLocation answers from the
\* cache and the search request is sent, or the store is read
searchOp(c) ==
    IF cached(c) THEN Op("searchFetch", c.transcript, c.savedLocation, NoPref)
    ELSE Op("searchRead", c.transcript, NoPref, NoPref)

start(c) ==
    IF startReturns(c)
    THEN UNCHANGED <<sessVars, locVars, pendingSearch, ops, envVars, signal>>
    ELSE /\ Room
         /\ state' = "recording"
         /\ statusMessage' = RecordingMsg
         /\ events' = <<>>
         /\ transcript' = <<>>
         /\ signal' = resetSignal(signal)
         /\ ops' = With(MovedOn(ops), Op("start", <<>>, NoPref, NoPref))
         /\ UNCHANGED <<locVars, pendingSearch, envVars, signal>>

stop(c) ==
    IF stopReturns(c)
    THEN UNCHANGED <<sessVars, locVars, pendingSearch, ops, envVars, signal>>
    ELSE /\ Room
         /\ state' = "processing"
         /\ statusMessage' = ProcessingMsg
         /\ ops' = With(ops, Op("stop", <<>>, NoPref, NoPref))
         /\ UNCHANGED <<transcript, events, locVars, pendingSearch, envVars, signal>>

searchWithTranscript(c) ==
    IF searchReturns(c)
    THEN UNCHANGED <<sessVars, locVars, pendingSearch, ops, envVars, signal>>
    ELSE /\ Room
         /\ state' = "processing"
         /\ statusMessage' = SearchingMsg
         /\ ops' = With(MovedOn(ops), searchOp(c))
         /\ UNCHANGED <<transcript, events, locVars, pendingSearch, envVars, signal>>

saveLocation(c) ==
    IF saveReturns(c)
    THEN UNCHANGED <<sessVars, locVars, pendingSearch, ops, envVars, signal>>
    ELSE /\ Room
         /\ ops' = With(ops, Op("saveWrite", c.transcript,
                                Pref(Trim(c.locationInput)), c.savedLocation))
         /\ UNCHANGED <<sessVars, locVars, pendingSearch, envVars, signal>>

cancel(c) ==
    /\ Room
    /\ ops' = With(ops, Op(IF cancelsCapture(c) THEN "cancelNative" ELSE "hide",
                           <<>>, NoPref, NoPref))
    /\ UNCHANGED <<sessVars, locVars, pendingSearch, envVars, signal>>

resetKeepsTranscript ==
    /\ state' = "idle"
    /\ statusMessage' = IdleMsg
    /\ events' = <<>>
    /\ ops' = MovedOn(ops)
    /\ UNCHANGED <<transcript, locVars, pendingSearch, envVars, signal>>

reset ==
    /\ state' = "idle"
    /\ statusMessage' = IdleMsg
    /\ transcript' = <<>>
    /\ events' = <<>>
    /\ ops' = MovedOn(ops)
    /\ UNCHANGED <<locVars, pendingSearch, envVars, signal>>

closePrompt ==
    /\ locationPromptOpen' = FALSE
    /\ UNCHANGED <<sessVars, savedLocation, locationInput, pendingSearch, ops, envVars,
                   signal>>

Handlers == {"start", "stop", "search", "saveLocation", "cancel", "reset", "closePrompt"}

Handle(h, c) ==
    CASE h = "start"        -> start(c)
      [] h = "stop"         -> stop(c)
      [] h = "search"       -> searchWithTranscript(c)
      [] h = "saveLocation" -> saveLocation(c)
      [] h = "cancel"       -> cancel(c)
      [] h = "reset"        -> reset
      [] h = "closePrompt"  -> closePrompt

\* the handler returned at its guard
Returns(h, c) ==
    CASE h = "start"        -> startReturns(c)
      [] h = "stop"         -> stopReturns(c)
      [] h = "search"       -> searchReturns(c)
      [] h = "saveLocation" -> saveReturns(c)
      [] OTHER              -> FALSE

\* the step just taken: the handler or continuation, how it was reached or
\* how its await resolved, whether it returned at its guard, whether the
\* response answers a session that is gone, and the data the await resolved to
Did(a, via, noop, stale) ==
    [a |-> a, via |-> via, noop |-> noop, stale |-> stale, data |-> <<>>]

-----------------------------------------------------------------------------
(* Events *)

\* the pending frame after a handler: cancel calls cancelAnimationFrame
frameAfter(h) == IF h = "cancel" THEN FALSE ELSE frame

\* keydown on the window: the router reads the refs, the handler its closure
KeyDown ==
    \E key \in Keys :
        LET h == onKey(rendered.locationPromptOpen, key, rendered.state) IN
        /\ ~windowHidden
        /\ h # "none"
        /\ Handle(h, rendered)
        /\ FlushAfter(frameAfter(h))
        /\ last' = Did(h, "key", Returns(h, rendered), FALSE)
        /\ UNCHANGED <<samples, frames>>

\* a click on a button of the view on screen
Click ==
    \E h \in Buttons(rendered) :
        /\ ~windowHidden
        /\ Handle(h, rendered)
        /\ FlushAfter(frameAfter(h))
        /\ last' = Did(h, "button", Returns(h, rendered), FALSE)
        /\ UNCHANGED <<samples, frames>>

\* onChange of the location field of the prompt
TypeLocation ==
    \E v \in LocationInputs :
        /\ ~windowHidden
        /\ rendered.locationPromptOpen
        /\ v # locationInput
        /\ locationInput' = v
        /\ UNCHANGED <<sessVars, savedLocation, locationPromptOpen, pendingSearch,
                       ops, envVars, sigVars>>
        /\ Flush
        /\ last' = Did("type", "key", FALSE, FALSE)

\* the native start-recording event: the render it causes is a later task
NativeShortcut ==
    LET h == startRecordingListener(rendered) IN
    /\ listening.startRecording = "active"
    /\ h # "none"
    /\ Handle(h, rendered)
    /\ last' = Did(h, "native", Returns(h, rendered), FALSE)
    /\ UNCHANGED <<samples, frames>>
    /\ Defer

\* the render and the effects that follow updates made outside an input event
Render ==
    /\ unrendered > 0
    /\ rendered' = Snap
    /\ unrendered' = 0
    /\ last' = Did("render", "-", FALSE, FALSE)
    /\ UNCHANGED <<sessVars, locVars, pendingSearch, ops, envVars, sigVars>>
    /\ Effects(frame)

\* the shell shows the window again
ShowWindow ==
    /\ windowHidden
    /\ windowHidden' = FALSE
    /\ last' = Did("show", "-", FALSE, FALSE)
    /\ UNCHANGED <<sessVars, locVars, pendingSearch, ops, rendered, unrendered,
                   captureActive, store, sigVars, fxVars>>

-----------------------------------------------------------------------------
(* Continuations: an await resolves and the suspended handler runs on.     *)
(* The updates it makes are rendered by a later task.                      *)

\* loadSavedLocation, after get_saved_location
LoadDone ==
    \E op \in Pending, ok \in BOOLEAN :
        /\ op.kind = "mountLoad"
        /\ ops' = Without(op)
        /\ IF ok /\ HasLocation(store)
           THEN /\ savedLocation' = store
                /\ locationInput' = store[1]
           ELSE UNCHANGED <<savedLocation, locationInput>>
        /\ last' = Did("loadDone", IF ok THEN "ok" ELSE "throw", FALSE, FALSE)
        /\ UNCHANGED <<sessVars, locationPromptOpen, pendingSearch, envVars>>
        /\ UNCHANGED sigVars
        /\ Defer

\* start, after start_recording
StartDone ==
    \E op \in Pending, ok \in BOOLEAN :
        /\ op.kind = "start"
        /\ ops' = Without(op)
        /\ IF ok
           THEN /\ captureActive' = TRUE
                /\ UNCHANGED <<state, statusMessage>>
           ELSE /\ state' = "error"
                /\ statusMessage' = StartFailedMsg
                /\ UNCHANGED captureActive
        /\ last' = Did("startDone", IF ok THEN "ok" ELSE "throw", FALSE, FALSE)
        /\ UNCHANGED <<transcript, events, locVars, pendingSearch,
                       windowHidden, store>>
        /\ UNCHANGED sigVars
        /\ Defer

\* stop, after stop_recording: the path of the audio a running capture
\* recorded, no file, or a failure (which may or may not have ended the capture)
stopFailedStateKept == "processing"
stopFailedState == "error"

StopDone ==
    \E op \in Pending, res \in {"path", "empty", "throw"} :
        /\ op.kind = "stop"
        /\ res = "path" => captureActive
        /\ IF res = "path"
           THEN /\ statusMessage' = TranscribingMsg
                /\ ops' = With(Without(op), Op("transcribe", <<>>, NoPref, NoPref))
                /\ UNCHANGED state
           ELSE /\ state' = stopFailedState
                /\ statusMessage' = IF res = "empty" THEN NoFileMsg ELSE StopFailedMsg
                /\ ops' = Without(op)
        /\ IF res = "throw"
           THEN captureActive' \in {captureActive, FALSE}
           ELSE captureActive' = FALSE
        /\ last' = Did("stopDone", res, FALSE, FALSE)
        /\ UNCHANGED <<transcript, events, locVars, pendingSearch,
                       windowHidden, store>>
        /\ UNCHANGED sigVars
        /\ Defer

\* transcribeRecording, after the fetch: non-2xx, a transport failure, or a text
TranscribeDone ==
    \E op \in Pending, res \in {"notok", "throw", "ok"}, text \in Transcripts :
        /\ op.kind = "transcribe"
        /\ res # "ok" => text = <<>>
        /\ ops' = Without(op)
        /\ IF res = "ok"
           THEN /\ transcript' = text
                /\ IF hasSpeech(text)
                   THEN state' = "transcribed" /\ statusMessage' = ReadyMsg
                   ELSE state' = "error" /\ statusMessage' = NoSpeechMsg
           ELSE /\ state' = "error"
                /\ statusMessage' = IF res = "notok" THEN TranscribeFailedMsg
                                    ELSE NoServerMsg
                /\ UNCHANGED transcript
        /\ last' = [Did("transcribeDone", res, FALSE, op.stale) EXCEPT !.data = text]
        /\ UNCHANGED <<events, locVars, pendingSearch, envVars>>
        /\ UNCHANGED sigVars
        /\ Defer

\* searchWithTranscript, after ensureLocation read the store
noLocationStateError == "error"
noLocationState == "transcribed"

SearchReadDone ==
    \E op \in Pending, ok \in BOOLEAN :
        /\ op.kind = "searchRead"
        /\ IF ok /\ HasLocation(store)
           THEN /\ savedLocation' = store
                /\ locationInput' = store[1]
                /\ ops' = With(Without(op), Op("searchFetch", op.t, store, NoPref))
                /\ last' = Did("searchReadDone", "found", FALSE, FALSE)
                /\ UNCHANGED <<state, statusMessage, locationPromptOpen, pendingSearch>>
           ELSE /\ locationPromptOpen' = TRUE
                /\ state' = noLocationState
                /\ statusMessage' = TellUsMsg
                /\ setPending
                /\ ops' = Without(op)
                /\ last' = [Did("searchReadDone", "prompt", FALSE, FALSE)
                                EXCEPT !.data = IF ok THEN <<>> ELSE <<"throw">>]
                /\ UNCHANGED <<savedLocation, locationInput>>
        /\ UNCHANGED <<transcript, events, envVars>>
        /\ UNCHANGED sigVars
        /\ Defer

\* searchWithTranscript, after the fetch: non-2xx, a transport failure, or events
SearchFetchDone ==
    \E op \in Pending, res \in {"notok", "throw", "ok"}, evs \in EventLists :
        /\ op.kind = "searchFetch"
        /\ res # "ok" => evs = <<>>
        /\ ops' = Without(op)
        /\ IF res = "ok"
           THEN /\ events' = evs
                /\ IF hasEvents(evs)
                   THEN state' = "results" /\ statusMessage' = FoundMsg(Len(evs))
                   ELSE state' = "transcribed" /\ statusMessage' = NoEventsMsg
           ELSE /\ state' = "error"
                /\ statusMessage' = IF res = "notok" THEN SearchFailedMsg
                                    ELSE NoServerMsg
                /\ UNCHANGED events
        /\ last' = [Did("searchFetchDone", res, FALSE, op.stale) EXCEPT !.data = evs]
        /\ UNCHANGED <<transcript, locVars, pendingSearch, envVars>>
        /\ UNCHANGED sigVars
        /\ Defer

\* saveLocation, after set_saved_location
SaveDone ==
    \E op \in Pending, ok \in BOOLEAN :
        /\ op.kind = "saveWrite"
        /\ IF ok
           THEN /\ store' = op.loc
                /\ savedLocation' = op.loc
                /\ locationPromptOpen' = FALSE
                /\ IF pendingSearch /\ Truthy(Trim(op.t))
                   THEN /\ clearPending
                        /\ state' = "processing"
                        /\ statusMessage' = SearchingMsg
                        /\ ops' = With(MovedOn(Without(op)),
                                       searchOp([transcript |-> op.t,
                                                 savedLocation |-> op.saved]))
                        /\ last' = Did("saveDone", "resumed", FALSE, FALSE)
                   ELSE /\ ops' = Without(op)
                        /\ last' = Did("saveDone", "saved", FALSE, FALSE)
                        /\ UNCHANGED <<state, statusMessage, pendingSearch>>
           ELSE /\ ops' = Without(op)
                /\ last' = Did("saveDone", "throw", FALSE, FALSE)
                /\ UNCHANGED <<state, statusMessage, pendingSearch, store,
                               savedLocation, locationPromptOpen>>
        /\ UNCHANGED <<transcript, events, locationInput,
                       captureActive, windowHidden>>
        /\ UNCHANGED sigVars
        /\ Defer

\* cancel, after cancel_recording: the failure is logged, the window hidden next
CancelNativeDone ==
    \E op \in Pending, ok \in BOOLEAN :
        /\ op.kind = "cancelNative"
        /\ ops' = With(Without(op), Op("hide", <<>>, NoPref, NoPref))
        /\ IF ok THEN captureActive' = FALSE
                 ELSE captureActive' \in {captureActive, FALSE}
        /\ last' = Did("cancelNativeDone", IF ok THEN "ok" ELSE "throw", FALSE, FALSE)
        /\ UNCHANGED <<sessVars, locVars, pendingSearch, windowHidden, store>>
        /\ UNCHANGED sigVars
        /\ Defer

\* cancel, after window.hide()
HideDone ==
    \E op \in Pending, ok \in BOOLEAN :
        /\ op.kind = "hide"
        /\ ops' = Without(op)
        /\ windowHidden' = IF ok THEN TRUE ELSE windowHidden
        /\ last' = Did("cancelDone", IF ok THEN "ok" ELSE "throw", FALSE, FALSE)
        /\ UNCHANGED <<sessVars, locVars, pendingSearch, captureActive, store>>
        /\ UNCHANGED sigVars
        /\ Defer

-----------------------------------------------------------------------------
(* Amplitude events *)

\* the audio-level listener: an amplitude event, which the native capture
\* emits while it runs.  It calls no setState, so no render follows.
AudioLevel ==
    \E rms \in RmsValues, t \in 1..MaxClock :
        /\ captureActive
        /\ listening.audioLevel = "active"
        /\ samples < MaxSamples
        /\ t >= signal.lastAudioAt
        /\ samples' = samples + 1
        /\ IF dropsSample(rendered.state)
           THEN /\ UNCHANGED signal
                /\ last' = Did("audioLevel", "dropped", TRUE, FALSE)
           ELSE /\ signal' = ingest(signal, rms, t)
                /\ last' = Did("audioLevel", "ingested", FALSE, FALSE)
        /\ UNCHANGED <<sessVars, locVars, pendingSearch, ops, envVars,
                       rendered, unrendered, frames, fxVars>>

-----------------------------------------------------------------------------
(* Frames and subscriptions *)

\* the pending requestAnimationFrame callback runs: draw, of the render that
\* requested it.  Only a render with state recording requests one, so draw
\* smooths the volume and, its closure still saying recording, requests the
\* next frame.
DrawFrame ==
    /\ frame
    /\ frames < MaxFrames
    /\ frames' = frames + 1
    /\ signal' = smooth(signal)
    /\ frame' = TRUE
    /\ last' = Did("draw", "frame", FALSE, FALSE)
    /\ UNCHANGED <<sessVars, locVars, pendingSearch, ops, envVars, rendered,
                   unrendered, samples, listening>>

\* the listen call of the start-recording effect resolves: the listener of
\* the last render is subscribed
ListenDone ==
    /\ listening.startRecording = "pending"
    /\ listening' = [listening EXCEPT !.startRecording = "active"]
    /\ last' = Did("listenDone", "-", FALSE, FALSE)
    /\ UNCHANGED <<sessVars, locVars, pendingSearch, ops, envVars, rendered,
                   unrendered, sigVars, frame>>

-----------------------------------------------------------------------------
(* The specification *)

Init ==
    /\ state = "idle"
    /\ statusMessage = IdleMsg
    /\ transcript = <<>>
    /\ events = <<>>
    /\ savedLocation = NoPref
    /\ locationPromptOpen = FALSE
    /\ locationInput = <<>>
    /\ pendingSearch = FALSE
    /\ rendered = Snap
    /\ unrendered = 0
    /\ ops = SetToBag({Op("mountLoad", <<>>, NoPref, NoPref)})
    /\ captureActive = FALSE
    /\ windowHidden = FALSE
    /\ store \in {NoPref, Pref(<<"A">>)}
    /\ signal = SignalZero
    /\ samples = 0
    /\ frame = FALSE
    /\ frames = 0
    /\ listening = Subscribed
    /\ last = Did("mount", "-", FALSE, FALSE)

Next ==
    \/ KeyDown
    \/ Click
    \/ TypeLocation
    \/ NativeShortcut
    \/ Render
    \/ ShowWindow
    \/ LoadDone
    \/ StartDone
    \/ StopDone
    \/ TranscribeDone
    \/ SearchReadDone
    \/ SearchFetchDone
    \/ SaveDone
    \/ CancelNativeDone
    \/ HideDone
    \/ ListenDone

Spec == Init /\ [][Next]_vars

\* the render task runs, and the calls a handler makes after it has set
\* processing resolve: stop_recording, the transcription, the store read and
\* the search.  A continuation waits while an earlier update is still to be
\* rendered, so its turn comes again and again rather than without a break:
\* strong fairness.
Fairness ==
    /\ WF_vars(Render)
    /\ SF_vars(StopDone)
    /\ SF_vars(TranscribeDone)
    /\ SF_vars(SearchReadDone)
    /\ SF_vars(SearchFetchDone)

\* the recorder driven by the keyboard and the buttons alone, the window
\* staying up: the handlers that set processing and every continuation
LiveNext ==
    \/ KeyDown
    \/ Click
    \/ TypeLocation
    \/ Render
    \/ LoadDone
    \/ StartDone
    \/ StopDone
    \/ TranscribeDone
    \/ SearchReadDone
    \/ SearchFetchDone
    \/ SaveDone
    \/ CancelNativeDone
    \/ HideDone

LiveSpec == Init /\ [][LiveNext]_vars /\ Fairness

\* the recorder with the amplitude events of the native capture.  The store
\* read and the request of a search, the store write and the typing into the
\* prompt touch no ref of the signal processor: here a search and a save stay
\* unanswered.
SignalNext ==
    \/ AudioLevel
    \/ KeyDown
    \/ Click
    \/ NativeShortcut
    \/ Render
    \/ ShowWindow
    \/ LoadDone
    \/ StartDone
    \/ StopDone
    \/ TranscribeDone
    \/ CancelNativeDone
    \/ HideDone
    \/ DrawFrame
    \/ ListenDone

SignalSpec == Init /\ [][SignalNext]_vars

\* one recording whose amplitude samples all carry the same rms: the session
\* as start, the resolved start_recording and the render leave it, then the
\* audio-level listener on every sample
SteadyInit ==
    /\ state = "recording"
    /\ statusMessage = RecordingMsg
    /\ transcript = <<>>
    /\ events = <<>>
    /\ savedLocation = NoPref
    /\ locationPromptOpen = FALSE
    /\ locationInput = <<>>
    /\ pendingSearch = FALSE
    /\ rendered = Snap
    /\ unrendered = 0
    /\ ops = EmptyBag
    /\ captureActive = TRUE
    /\ windowHidden = FALSE
    /\ store = NoPref
    /\ signal = resetSignal(SignalZero)
    /\ samples = 0
    /\ frame = TRUE
    /\ frames = 0
    /\ listening = Subscribed
    /\ last = Did("startDone", "ok", FALSE, FALSE)

SteadyLevel ==
    \E rms \in (IF last.a = "audioLevel" THEN {last.data[1]} ELSE SteadyRms),
       t \in 1..MaxClock :
        /\ captureActive
        /\ listening.audioLevel = "active"
        /\ samples < MaxSamples
        /\ t >= signal.lastAudioAt
        /\ ~dropsSample(rendered.state)
        /\ samples' = samples + 1
        /\ signal' = ingest(signal, rms, t)
        /\ last' = [Did("audioLevel", "steady", FALSE, FALSE) EXCEPT !.data = <<rms>>]
        /\ UNCHANGED <<sessVars, locVars, pendingSearch, ops, envVars,
                       rendered, unrendered, frames, fxVars>>

SteadySpec == SteadyInit /\ [][SteadyLevel]_vars

-----------------------------------------------------------------------------
(* Properties *)

\* the outstanding awaits of the given kinds
Count(b, kinds) == BagCardinality([o \in {x \in BagToSet(b) : x.kind \in kinds} |-> b[o]])

\* C1: in every reachable state, events is non-empty only when state is results.
C1_EventsOnlyInResults == Len(events) > 0 => state = "results"


\* C2: when a cancel completes (the window hide succeeds, straight after the
\* cancel was invoked or its native cancellation resolved), the session state
\* is idle and the window is hidden, whatever the state it was invoked in.
C2_CancelEndsIdleHidden ==
    [][(last'.a = "cancelDone" /\ last'.via = "ok"
           /\ last.a \in {"cancel", "cancelNativeDone"})
          => (state' = "idle" /\ windowHidden')]_vars

\* C3: a capture start is never requested while a capture is active or while
\* another start request is outstanding.
C3_OneCaptureAtATime ==
    [][(Count(ops', {"start"}) > Count(ops, {"start"}))
          => (~captureActive /\ Count(ops, {"start"}) = 0)]_vars

\* C4: a transcription or search response that completes after the session has
\* moved on (reset, a new start, another search since the request was sent)
\* changes none of state, statusMessage, transcript, events.
C4_StaleResponseDiscarded ==
    [][(last'.a \in {"transcribeDone", "searchFetchDone"} /\ last'.stale)
          => UNCHANGED <<state, statusMessage, transcript, events>>]_vars

\* C5: start, through any trigger, while the state (as held and as rendered) is
\* recording, processing, transcribed or results is a no-op: the state stays
\* and no native capture start is requested.
C5_StartOnlyFromIdleOrError ==
    [][(last'.a = "start" /\ rendered.state = state /\ state \notin {"idle", "error"})
          => UNCHANGED <<state, statusMessage, transcript, events, ops>>]_vars

\* C6: once the state (as held and as rendered) is error, a user action
\* changes it only if it is reset or start: no search, stop, cancel or
\* saveLocation moves it out of error.
C6_ErrorLeftOnlyByResetOrStart ==
    [][(state = "error" /\ rendered.state = "error" /\ state' # "error"
           /\ last'.via \in {"key", "button", "native"})
          => last'.a \in {"reset", "start"}]_vars

\* an await of one of the kinds resolved in this step
Resolved(kinds) == Count(ops', kinds) < Count(ops, kinds)
\* a search request was sent in this step
FetchSent == Count(ops', {"searchFetch"}) > Count(ops, {"searchFetch"})

\* C7: a search with a non-blank transcript and no cached location sends no
\* request while it reads the store, and when the store holds no location (or
\* the read fails) it opens the prompt, sends no request, returns the state to
\* transcribed and sets pendingSearch.
C7_SearchDeferredWithoutLocation ==
    [][/\ (last'.a = "search" /\ ~last'.noop /\ ~cached(rendered))
            => (~FetchSent /\ state' = "processing")
       /\ (Resolved({"searchRead"}) /\ ~HasLocation(store))
            => /\ locationPromptOpen'
               /\ ~FetchSent
               /\ state' = "transcribed"
               /\ pendingSearch']_vars

C7_Witness ==
    /\ last.a = "searchReadDone" /\ last.via = "prompt"
    /\ ~HasLocation(store)
    /\ state = "transcribed" /\ pendingSearch /\ locationPromptOpen
    /\ Count(ops, {"searchFetch"}) = 0

\* C8: when a search was left pending (and the transcript held is not blank),
\* a saveLocation whose store write succeeds caches the saved location, closes
\* the prompt and starts the search again, and the search request it sends
\* uses the location just saved.
C8_SaveResumesWithSavedLocation ==
    [][(/\ last'.a = "saveDone" /\ last'.via # "throw"
        /\ pendingSearch
        /\ \A op \in Pending : op.kind = "saveWrite" => Truthy(Trim(op.t)))
          => /\ savedLocation' = store'
             /\ ~locationPromptOpen'
             /\ state' = "processing"
             /\ \A o \in BagToSet(ops') :
                   (o.kind = "searchFetch" /\ ~o.stale) => o.loc = store']_vars

\* C9: resumption is exactly-once: a completed saveLocation starts a search
\* only if pendingSearch was set, and clears it in the same step, before the
\* search runs; with pendingSearch clear it starts none; and pendingSearch is
\* set again only by a search that is deferred anew.
C9_ResumedExactlyOnce ==
    [][/\ Resolved({"saveWrite"}) =>
            LET started == Count(ops', {"searchRead", "searchFetch"})
                             > Count(ops, {"searchRead", "searchFetch"})
            IN  /\ started => (pendingSearch /\ ~pendingSearch')
                /\ ~pendingSearch =>
                      (~started /\ ~pendingSearch' /\ UNCHANGED <<state, statusMessage>>)
       /\ (~pendingSearch /\ pendingSearch') => Resolved({"searchRead"})]_vars

C9_Witness ==
    /\ last.a = "saveDone" /\ last.via = "resumed"
    /\ ~pendingSearch
    /\ state = "processing"
    /\ Count(ops, {"searchRead", "searchFetch"}) > 0

C11_SaveBlankLocationNoOp ==
    [][(last'.a = "saveLocation" /\ ~Truthy(Trim(rendered.locationInput)))
          => UNCHANGED <<savedLocation, locationPromptOpen, locationInput, store,
                         pendingSearch, ops, state, statusMessage, transcript,
                         events>>]_vars

C11_Witness ==
    /\ last.a = "saveLocation" /\ last.noop
    /\ locationInput = <<" ">> /\ rendered.locationInput = locationInput
    /\ locationPromptOpen /\ pendingSearch

\* a preference is null or has a non-empty location
NonEmptyLocation(p) == p = NoPref \/ Truthy(p[1])

\* C12: in every reachable state the preference in the native store and the
\* one in the cache are null or have a non-empty location.
C12_LocationNeverEmpty == NonEmptyLocation(store) /\ NonEmptyLocation(savedLocation)

C12_Witness ==
    /\ last.a = "saveDone" /\ last.via # "throw"
    /\ store = Pref(<<"B">>) /\ savedLocation = store

\* C13: cancel invoked while the state (held and rendered) is idle changes no
\* session field and requests no native capture command: the handler only
\* asks for the window to be hidden, and when that resolves nothing but the
\* window changes.
C13_CancelIdleOnlyHides ==
    [][/\ (last'.a = "cancel" /\ state = "idle" /\ rendered.state = "idle")
            => /\ UNCHANGED <<state, statusMessage, transcript, events, pendingSearch,
                              savedLocation, locationPromptOpen, locationInput,
                              captureActive, store, windowHidden>>
               /\ ops' = With(ops, Op("hide", <<>>, NoPref, NoPref))
       /\ (last'.a = "cancelDone")
            => /\ UNCHANGED <<state, statusMessage, transcript, events, pendingSearch,
                              savedLocation, locationPromptOpen, locationInput,
                              captureActive, store>>
               /\ Count(ops', OpKinds) = Count(ops, OpKinds) - 1]_vars

C13_Witness ==
    /\ last.a = "cancelDone" /\ last.via = "ok"
    /\ state = "idle" /\ statusMessage = IdleMsg
    /\ windowHidden /\ ~captureActive

\* C14: a start that passes its guard sets the state recording, and a
\* capture start that succeeds leaves the state as it is; a stop that passes
\* its guard sets processing, and a returned file path keeps it and sends the
\* transcription request; a 2xx transcription response whose text has a
\* non-whitespace character sets the state transcribed and transcript to that
\* text.
C14_RecordStopTranscribe ==
    [][/\ (last'.a = "start" /\ ~last'.noop)
            => (state' = "recording" /\ Count(ops', {"start"}) = Count(ops, {"start"}) + 1)
       /\ (last'.a = "startDone" /\ last'.via = "ok") => UNCHANGED state
       /\ (last'.a = "stop" /\ ~last'.noop)
            => (state' = "processing" /\ Count(ops', {"stop"}) = Count(ops, {"stop"}) + 1)
       /\ (last'.a = "stopDone" /\ last'.via = "path")
            => /\ UNCHANGED state
               /\ Count(ops', {"transcribe"}) = Count(ops, {"transcribe"}) + 1
       /\ (last'.a = "transcribeDone" /\ last'.via = "ok" /\ Truthy(Trim(last'.data)))
            => (state' = "transcribed" /\ transcript' = last'.data)]_vars

C14_Witness ==
    /\ last.a = "transcribeDone" /\ last.via = "ok" /\ last.data = <<"j">>
    /\ state = "transcribed" /\ transcript = <<"j">>

\* C15: a 2xx search response with n > 0 events sets the state results and
\* events to that list; one with an empty list sets the state transcribed,
\* events empty and the status to the No events found message.
C15_SearchResponseOutcome ==
    [][(last'.a = "searchFetchDone" /\ last'.via = "ok")
          => IF Len(last'.data) > 0
             THEN /\ state' = "results"
                  /\ events' = last'.data
                  /\ Len(events') = Len(last'.data)
             ELSE /\ state' = "transcribed"
                  /\ events' = <<>>
                  /\ statusMessage' = NoEventsMsg]_vars

C15_Witness ==
    /\ last.a = "searchFetchDone" /\ last.via = "ok" /\ last.data = <<>>
    /\ state = "transcribed" /\ events = <<>> /\ statusMessage = NoEventsMsg

\* C16: a 2xx transcription response whose text is empty or whitespace-only
\* sets the state error and the status to the No speech detected message.
C16_BlankTranscriptionIsError ==
    [][(last'.a = "transcribeDone" /\ last'.via = "ok" /\ ~Truthy(Trim(last'.data)))
          => (state' = "error" /\ statusMessage' = NoSpeechMsg)]_vars

C16_Witness ==
    /\ last.a = "transcribeDone" /\ last.via = "ok" /\ last.data = <<" ">>
    /\ state = "error" /\ statusMessage = NoSpeechMsg

\* the status messages of the failures
FailureMsgs == {StartFailedMsg, NoFileMsg, StopFailedMsg, TranscribeFailedMsg,
                NoServerMsg, SearchFailedMsg}

\* the step was a native or remote failure that is not exempt: a capture
\* start or stop failure, no file, a transcription or search failure, a store
\* write failure
Failed(l) ==
    \/ l.a = "startDone" /\ l.via = "throw"
    \/ l.a = "stopDone" /\ l.via \in {"throw", "empty"}
    \/ l.a = "transcribeDone" /\ l.via \in {"notok", "throw"}
    \/ l.a = "searchFetchDone" /\ l.via \in {"notok", "throw"}
    \/ l.a = "saveDone" /\ l.via = "throw"

\* C17: every native or remote failure that is not exempt sets the state
\* error and a failure status message.
C17_FailuresEndInError ==
    [][Failed(last') => (state' = "error" /\ statusMessage' \in FailureMsgs)]_vars

C19_ResetReturnsToIdle ==
    [][(last'.a = "reset")
          => /\ state' = "idle"
             /\ transcript' = <<>>
             /\ events' = <<>>
             /\ statusMessage' = IdleMsg]_vars

C19_Witness ==
    /\ last.a = "reset"
    /\ state = "idle" /\ transcript = <<>> /\ events = <<>> /\ statusMessage = IdleMsg
    /\ Count(ops, {"start", "stop", "transcribe", "searchFetch"}) > 0

\* C20: an amplitude sample delivered while the session state is not
\* recording leaves the signal state unchanged: volume, targetVolume,
\* noiseFloor and lastAudioAt keep their values.
C20_SampleOutsideRecordingDropped ==
    [][(last'.a = "audioLevel" /\ state # "recording") => UNCHANGED signal]_vars

\* C21: while the state is processing and a stop, transcription or search
\* request is outstanding, no user action (key, button, shortcut) moves the
\* state out of processing.
C21_ProcessingHeldWhileOutstanding ==
    [][(/\ state = "processing"
        /\ Count(ops, {"stop", "transcribe", "searchRead", "searchFetch"}) > 0
        /\ last'.via \in {"key", "button", "native"})
          => state' = "processing"]_vars

\* C22: in a recording whose samples all carry the same rms r > 0, after
\* every sample noiseFloor is r and targetVolume is
\* max(0, min(1, (r - (1.3 r + 0.0025)) * 4)), which is 0.
C22_SteadyFloorAndTarget ==
    [][(last'.a = "audioLevel" /\ last'.via = "steady")
          => LET r == last'.data[1] IN
             /\ signal'.noiseFloor = r
             /\ signal'.targetVolume
                  = Max(0, Min(Scale, 4 * (r - ((13 * r) \div 10 + 25))))
             /\ signal'.targetVolume = 0]_vars

C22_Witness ==
    /\ last.a = "audioLevel" /\ last.via = "steady"
    /\ samples >= 2
    /\ last.data = <<3000>>
    /\ signal.noiseFloor = 3000 /\ signal.targetVolume = 0

\* C23: stop invoked while the state is not recording changes no state and
\* sends neither a native stop request nor a transcription request.
C23_StopOutsideRecordingNoOp ==
    [][(last'.a = "stop" /\ state # "recording")
          => /\ last'.noop
             /\ UNCHANGED <<state, statusMessage, transcript, events, ops>>]_vars

\* C24: whenever the state is not recording, no frame is scheduled.
C24_NoFrameOutsideRecording ==
    state # "recording" => ~frame

\* C25: while the state is recording the redraw loop stays alive: after a
\* frame, and after a key or a click that leaves the state recording, a next
\* frame is scheduled.
C25_LoopAliveWhileRecording ==
    [][(/\ last'.a = "draw" \/ last'.via \in {"key", "button"}
        /\ state = "recording" /\ rendered.state = "recording" /\ frame
        /\ state' = "recording")
          => frame']_vars

\* the handler the key table gives a key
Routed(open, key, st) ==
    IF open
    THEN CASE key = "Enter" -> "saveLocation"
           [] key = "Escape" -> "closePrompt"
           [] OTHER -> "none"
    ELSE CASE key = "AltE" /\ st = "recording" -> "stop"
           [] key = "AltE" /\ st \in {"idle", "error"} -> "start"
           [] key = "Escape" -> "cancel"
           [] key = "Enter" /\ st = "transcribed" -> "search"
           [] OTHER -> "none"

C27_StartClearsSessionAndSignal ==
    [][(last'.a = "start" /\ ~last'.noop)
          => /\ state' = "recording"
             /\ transcript' = <<>>
             /\ events' = <<>>
             /\ signal' = SignalZero]_vars

\* C28: a store read that fails during search opens the prompt, sets the
\* state transcribed with pendingSearch true, and sends no search request.
C28_ReadFailureOpensPrompt ==
    [][(last'.a = "searchReadDone" /\ last'.data = <<"throw">>)
          => /\ locationPromptOpen'
             /\ state' = "transcribed"
             /\ pendingSearch'
             /\ state' # "error"
             /\ Count(ops', {"searchFetch"}) = Count(ops, {"searchFetch"})]_vars

C28_Witness ==
    /\ last.a = "searchReadDone" /\ last.data = <<"throw">>
    /\ locationPromptOpen /\ state = "transcribed" /\ pendingSearch
    /\ HasLocation(store)

\* C29: both native subscriptions stay as the mount made them: each is
\* active at every moment and no step registers or removes one.
C29_SubscribedOnceAtMount ==
    [][/\ listening.audioLevel = "active"
       /\ listening.startRecording = "active"
       /\ UNCHANGED listening]_vars

\* C30: a key is dispatched on the current state: the state the router and
\* the handler read is the state the session holds.
C30_KeyDispatchesOnCurrentState ==
    [][(last'.via = "key" /\ last'.a # "type") => rendered.state = state]_vars

\* C31: whenever no start, stop or cancel request is outstanding, the native
\* capture is active exactly when the state is recording; and a native stop or
\* cancel is requested only for a capture that is active.
C31_CaptureAgreesWithState ==
    [][/\ (Count(ops', {"start", "stop", "cancelNative"}) = 0)
            => (captureActive' <=> state' = "recording")
       /\ (Count(ops', {"stop", "cancelNative"}) > Count(ops, {"stop", "cancelNative"}))
            => captureActive]_vars

\* C32: at most one transcription or search request is outstanding.
C32_OneRequestAtATime ==
    Count(ops, {"transcribe", "searchFetch"}) <= 1

\* C34: whenever the state is transcribed, the transcript holds a character
\* that is not whitespace.
C34_TranscribedHasSpeech ==
    state = "transcribed" => Trim(transcript) # <<>>

\* C35: while the location prompt is open, no key and no native shortcut
\* event moves the state to recording or requests the native capture.
C35_NoRecordingWhilePromptOpen ==
    [][(/\ locationPromptOpen /\ rendered.locationPromptOpen
        /\ last'.via \in {"key", "native"})
          => /\ state' = "recording" => state = "recording"
             /\ Count(ops', {"start"}) <= Count(ops, {"start"})]_vars

\* C36: the transcript is empty or holds a character that is not whitespace.
C36_TranscriptNeverBlank ==
    transcript = <<>> \/ Trim(transcript) # <<>>

\* C33: with every call resolving, a session in processing comes to
\* transcribed, results or error.
C33_ProcessingEnds ==
    (state = "processing") ~> (state \in {"transcribed", "results", "error"})

C33_Witness ==
    /\ last.a = "stopDone" /\ last.via = "throw"
    /\ state = "error" /\ statusMessage = StopFailedMsg
    /\ Count(ops, {"stop", "transcribe", "searchRead", "searchFetch"}) = 0

=============================================================================
